---- MODULE Spec2Model ----
(***************************************************************************)
(* Campus Navigator front end.                                             *)
(*                                                                         *)
(* LocationProvider (the LocationSampler) is modelled from                 *)
(* src/unnamed/part_001, lines 394-545: its React state, the handlers      *)
(* startTracking / stopTracking, the two position callbacks and the        *)
(* useEffect that clears the watch of the previous render.  The platform   *)
(* (navigator.geolocation) is the environment: it keeps the set of         *)
(* registered watches and a task queue of callbacks that have been queued  *)
(* but not yet invoked.  Specification: Spec.                              *)
(*                                                                         *)
(* The two route pages are modelled with the RouteForm they mount: Home of *)
(* src/unnamed/part_001 (handleRouteCalculation, SpecLegacy) and Home of   *)
(* app/page.tsx (handleRouteSubmit, SpecHome).  The routing backend is the *)
(* environment: it answers a pending fetch with any response.              *)
(*                                                                         *)
(* SpecForm is the RouteForm of app/page.tsx with the "current location"   *)
(* option of its start selector, whose position callback runs later.       *)
(* SpecNavigation is navigation over a displayed route: the page, the      *)
(* sampler and the navigation session of LiveNavigation together.          *)
(***************************************************************************)
EXTENDS Integers, Sequences, FiniteSets, TLC

\* ------------------------------------------------------------------ bounds
MaxWatches == 2      \* watchPosition is called at most this many times
MaxTimestamp == 2    \* position.timestamp ranges over 1..MaxTimestamp
MaxInflight == 1     \* callbacks queued by the platform and not yet invoked

MaxLocations == 2    \* entries of the location catalog
MaxPendingFixes == 1 \* getCurrentPosition calls not yet answered

\* --------------------------------------------------------------- constants
NullId == 0                 \* watchId === null
PERMISSION_DENIED == 1      \* GeolocationPositionError.PERMISSION_DENIED
POSITION_UNAVAILABLE == 2   \* GeolocationPositionError.POSITION_UNAVAILABLE
TIMEOUT == 3                \* GeolocationPositionError.TIMEOUT

NoError == "null"
NoLocation == [timestamp |-> 0]
ErrorCodes == {PERMISSION_DENIED, POSITION_UNAVAILABLE, TIMEOUT}
UnsupportedMessage == "Geolocation is not supported by this browser"

VARIABLES
  \* LocationProvider React state
  currentLocation,        \* LocationData | null
  isTracking,
  error,
  hasLocationPermission,
  watchId,
  \* the watchId closed over by the effect that ran last; its cleanup
  \* clears that watch when the next effect runs
  effectWatchId,
  \* a navigator.permissions.query promise is unresolved
  permissionQuery,
  \* platform
  hasGeolocation,         \* navigator.geolocation is present
  watches,                \* ids registered with watchPosition and not cleared
  nextWatchId,            \* the id the next watchPosition call returns
  inflight,               \* callbacks queued on the geolocation task source
  \* history: the last handler that ran and the provider state before it
  lastOp,
  prev

samplerVars == <<currentLocation, isTracking, error, hasLocationPermission,
                 watchId, effectWatchId, permissionQuery, hasGeolocation,
                 watches, nextWatchId, inflight, lastOp, prev>>

VARIABLES
  \* Home of src/unnamed/part_001 (the page with handleRouteCalculation)
  route,                  \* RouteData | null
  loading,
  routeError,             \* its error state
  coordinates,
  request,                \* the fetch awaited by handleRouteCalculation
  \* Home of app/page.tsx (the page with handleRouteSubmit)
  routeData,              \* RouteData | null
  isLoading,
  submitError,            \* its error state
  selectedFromLocation,
  selectedToLocation,
  isNavigationMode,
  homeRequest,            \* the fetch awaited by handleRouteSubmit
  \* RouteForm
  formData,
  selectedStartLocation,
  selectedEndLocation,
  \* history: the last page handler, the response it handled, and the page
  \* before the last response, reset or pair of swaps
  routeOp,
  lastResponse,
  origin,
  \* LocationSelector of the start endpoint: the getCurrentPosition calls not
  \* yet answered, each with the formData its onChange closed over
  fixRequests,
  \* LiveNavigation: the navigation session of the mounted component
  session

legacyVars == <<route, loading, routeError, coordinates, request>>
formVars == <<formData, selectedStartLocation, selectedEndLocation>>
routeHistory == <<routeOp, lastResponse, origin>>
homeVars == <<routeData, isLoading, submitError, selectedFromLocation,
              selectedToLocation, isNavigationMode, homeRequest>>
selectorVars == <<fixRequests>>
navVars == <<session>>
pageVars == <<legacyVars, homeVars, formVars, routeHistory, selectorVars,
              navVars>>

vars == <<samplerVars, pageVars>>

\* The provider state a handler starts from.
Snapshot ==
  [currentLocation |-> currentLocation, isTracking |-> isTracking,
   error |-> error, hasLocationPermission |-> hasLocationPermission,
   watchId |-> watchId, watches |-> watches, inflight |-> inflight]

\* errorCallback's switch (error.code)
ErrorMessage(code) ==
  CASE code = PERMISSION_DENIED -> "Location access denied by user"
    [] code = POSITION_UNAVAILABLE -> "Location information unavailable"
    [] code = TIMEOUT -> "Location request timed out"
    [] OTHER -> "Location access denied"

\* A handler that changes the provider state makes React render, and before
\* it renders React runs the effect left pending by the previous commit: the
\* cleanup of the effect before it (clearWatch of the watchId that effect
\* closed over), then checkLocationPermission.  A handler that sets every
\* state to the value it has does not render.  w is the set of watches after
\* the handler body.
EffectPending == effectWatchId # watchId

CleanupWatches(w) ==
  IF EffectPending /\ effectWatchId # NullId THEN w \ {effectWatchId} ELSE w

Render(changed, w) ==
  /\ watches' = IF changed THEN CleanupWatches(w) ELSE w
  /\ effectWatchId' = IF changed THEN watchId ELSE effectWatchId
  /\ permissionQuery' =
       (permissionQuery \/ (changed /\ EffectPending /\ hasGeolocation))

\* {isNavigationMode && routeData && <LiveNavigation .../>}
LiveNavigationMounted(mode, data) == mode /\ data.kind = "route"

\* LiveNavigation: a session that has not arrived; near counts the samples
\* within the arrival radius it has received, up to 2.
FreshSession == [arrived |-> FALSE, completions |-> 0, near |-> 0]

onLocationUpdate_EverySample(s, inRadius) ==
  IF inRadius
  THEN [arrived |-> TRUE, completions |-> s.completions + 1,
        near |-> IF s.near < 2 THEN s.near + 1 ELSE 2]
  ELSE s

\* LiveNavigation receiving a sample whose distance to the destination is
\* within the radius or not: the first one within the radius marks the
\* session complete and produces the completion event.
onLocationUpdate(s, inRadius) ==
  IF inRadius
  THEN [arrived |-> TRUE,
        completions |-> IF s.arrived THEN s.completions
                        ELSE s.completions + 1,
        near |-> IF s.near < 2 THEN s.near + 1 ELSE 2]
  ELSE s

\* A render of Home: LiveNavigation keeps its session while it stays
\* mounted and starts a new one when it is mounted again.
LiveNavigationRender ==
  session' = IF /\ LiveNavigationMounted(isNavigationMode, routeData)
                /\ LiveNavigationMounted(isNavigationMode', routeData')
             THEN session ELSE FreshSession

SamplerInit ==
  /\ currentLocation = NoLocation
  /\ isTracking = FALSE
  /\ hasGeolocation \in BOOLEAN
  \* the mount effect has run checkLocationPermission
  /\ error = IF hasGeolocation THEN NoError ELSE UnsupportedMessage
  /\ hasLocationPermission \in (IF hasGeolocation THEN BOOLEAN ELSE {FALSE})
  /\ watchId = NullId
  /\ effectWatchId = NullId
  /\ permissionQuery = FALSE
  /\ watches = {}
  /\ nextWatchId = 1
  /\ inflight = <<>>
  /\ lastOp = "init"
  /\ prev = Snapshot

\* startTracking that sets isTracking before it tests navigator.geolocation.
startTracking_FlagBeforeTest ==
  /\ UNCHANGED pageVars
  /\ lastOp' = "startTracking"
  /\ prev' = Snapshot
  /\ IF ~hasGeolocation
     THEN /\ error' = UnsupportedMessage
          /\ isTracking' = TRUE
          /\ Render(TRUE, watches)
          /\ UNCHANGED <<currentLocation, hasLocationPermission,
                         watchId, hasGeolocation, nextWatchId, inflight>>
     ELSE /\ nextWatchId <= MaxWatches
          /\ error' = NoError
          /\ isTracking' = TRUE
          /\ watchId' = nextWatchId
          /\ nextWatchId' = nextWatchId + 1
          /\ Render(TRUE, watches \cup {nextWatchId})
          /\ UNCHANGED <<currentLocation, hasLocationPermission,
                         hasGeolocation, inflight>>

\* startTracking that returns early while the advisory permission flag is
\* false.
startTracking_PermissionGated ==
  /\ UNCHANGED pageVars
  /\ lastOp' = "startTracking"
  /\ prev' = Snapshot
  /\ IF ~hasGeolocation \/ ~hasLocationPermission
     THEN /\ error' = IF hasGeolocation THEN error ELSE UnsupportedMessage
          /\ Render(~hasGeolocation /\ error # UnsupportedMessage, watches)
          /\ UNCHANGED <<currentLocation, isTracking, hasLocationPermission,
                         watchId, hasGeolocation, nextWatchId, inflight>>
     ELSE /\ nextWatchId <= MaxWatches
          /\ error' = NoError
          /\ isTracking' = TRUE
          /\ watchId' = nextWatchId
          /\ nextWatchId' = nextWatchId + 1
          /\ Render(TRUE, watches \cup {nextWatchId})
          /\ UNCHANGED <<currentLocation, hasLocationPermission,
                         hasGeolocation, inflight>>

\* startTracking: without navigator.geolocation setError and return;
\* otherwise setError(null); setIsTracking(true);
\* id = watchPosition(...); setWatchId(id).
startTracking ==
  /\ UNCHANGED pageVars
  /\ lastOp' = "startTracking"
  /\ prev' = Snapshot
  /\ IF ~hasGeolocation
     THEN /\ error' = UnsupportedMessage
          /\ Render(error # UnsupportedMessage, watches)
          /\ UNCHANGED <<currentLocation, isTracking, hasLocationPermission,
                         watchId, hasGeolocation, nextWatchId, inflight>>
     ELSE /\ nextWatchId <= MaxWatches
          /\ error' = NoError
          /\ isTracking' = TRUE
          /\ watchId' = nextWatchId
          /\ nextWatchId' = nextWatchId + 1
          /\ Render(TRUE, watches \cup {nextWatchId})
          /\ UNCHANGED <<currentLocation, hasLocationPermission,
                         hasGeolocation, inflight>>

\* stopTracking that forgets the state but never calls clearWatch.
stopTracking_NoClearWatch ==
  /\ UNCHANGED pageVars
  /\ watchId' = NullId
  /\ isTracking' = FALSE
  /\ Render(watchId # NullId \/ isTracking, watches)
  /\ lastOp' = "stopTracking"
  /\ prev' = Snapshot
  /\ UNCHANGED <<currentLocation, error, hasLocationPermission,
                 hasGeolocation, nextWatchId, inflight>>

\* stopTracking: if (watchId !== null) { clearWatch(watchId);
\* setWatchId(null) }; setIsTracking(false).
stopTracking ==
  /\ UNCHANGED pageVars
  /\ watchId' = NullId
  /\ isTracking' = FALSE
  /\ Render(watchId # NullId \/ isTracking,
            IF watchId # NullId THEN watches \ {watchId} ELSE watches)
  /\ lastOp' = "stopTracking"
  /\ prev' = Snapshot
  /\ UNCHANGED <<currentLocation, error, hasLocationPermission,
                 hasGeolocation, nextWatchId, inflight>>

\* successCallback(position): a new LocationData object every time.
successCallback(ev) ==
  /\ currentLocation' = [timestamp |-> ev.timestamp]
  /\ hasLocationPermission' = TRUE
  /\ error' = NoError
  /\ Render(TRUE, watches)
  /\ UNCHANGED <<isTracking, watchId>>

\* errorCallback that records the message and leaves isTracking alone.
errorCallback_KeepsTracking(ev) ==
  /\ error' = ErrorMessage(ev.code)
  /\ hasLocationPermission' = FALSE
  /\ Render(error # ErrorMessage(ev.code) \/ hasLocationPermission, watches)
  /\ UNCHANGED <<currentLocation, watchId, isTracking>>

\* errorCallback(error)
errorCallback(ev) ==
  /\ error' = ErrorMessage(ev.code)
  /\ isTracking' = FALSE
  /\ hasLocationPermission' = FALSE
  /\ Render(error # ErrorMessage(ev.code) \/ isTracking
              \/ hasLocationPermission, watches)
  /\ UNCHANGED <<currentLocation, watchId>>

\* Deliver in which an error also ends navigation mode.
Deliver_ExitsNavigation ==
  /\ inflight # <<>>
  /\ UNCHANGED <<legacyVars, formVars, routeHistory, selectorVars>>
  /\ isNavigationMode' = (isNavigationMode /\ Head(inflight).kind # "error")
  /\ UNCHANGED <<routeData, isLoading, submitError, selectedFromLocation,
                 selectedToLocation, homeRequest>>
  /\ LET ev == Head(inflight) IN
       /\ IF ev.kind = "sample" THEN successCallback(ev) ELSE errorCallback(ev)
       /\ lastOp' = ev.kind
       /\ IF /\ ev.kind = "sample"
             /\ LiveNavigationMounted(isNavigationMode, routeData)
          THEN \E inRadius \in BOOLEAN :
                 session' = onLocationUpdate(session, inRadius)
          ELSE UNCHANGED session
  /\ inflight' = Tail(inflight)
  /\ prev' = Snapshot
  /\ UNCHANGED <<hasGeolocation, nextWatchId>>

\* The geolocation task source invokes the callback at the head of its
\* queue; the consumers of the context render with the new value.
Deliver ==
  /\ UNCHANGED <<legacyVars, homeVars, formVars, routeHistory, selectorVars>>
  /\ inflight # <<>>
  /\ LET ev == Head(inflight) IN
       /\ IF ev.kind = "sample" THEN successCallback(ev) ELSE errorCallback(ev)
       /\ lastOp' = ev.kind
       /\ IF /\ ev.kind = "sample"
             /\ LiveNavigationMounted(isNavigationMode, routeData)
          THEN \E inRadius \in BOOLEAN :
                 session' = onLocationUpdate(session, inRadius)
          ELSE UNCHANGED session
  /\ inflight' = Tail(inflight)
  /\ prev' = Snapshot
  /\ UNCHANGED <<hasGeolocation, nextWatchId>>

\* useEffect(..., [checkLocationPermission, watchId]): the effect of the last
\* commit runs on its own (after paint): the cleanup of the previous effect,
\* then checkLocationPermission.
FlushEffect ==
  /\ UNCHANGED pageVars
  /\ EffectPending
  /\ Render(TRUE, watches)
  /\ lastOp' = "effect"
  /\ prev' = Snapshot
  /\ UNCHANGED <<currentLocation, isTracking, error, hasLocationPermission,
                 watchId, hasGeolocation, nextWatchId, inflight>>

\* checkLocationPermission after the await: setHasLocationPermission(
\* permission.state === 'granted'); the catch branch sets nothing.
checkLocationPermission ==
  /\ UNCHANGED pageVars
  /\ permissionQuery
  /\ \E state \in {"granted", "denied", "prompt", "unsupported"} :
       LET granted == IF state = "unsupported" THEN hasLocationPermission
                      ELSE (state = "granted") IN
         /\ hasLocationPermission' = granted
         /\ watches' = IF granted # hasLocationPermission
                       THEN CleanupWatches(watches) ELSE watches
         /\ effectWatchId' = IF granted # hasLocationPermission
                             THEN watchId ELSE effectWatchId
         /\ permissionQuery' =
              (granted # hasLocationPermission /\ EffectPending)
  /\ lastOp' = "permission"
  /\ prev' = Snapshot
  /\ UNCHANGED <<currentLocation, isTracking, error, watchId,
                 hasGeolocation, nextWatchId, inflight>>

\* A registered watch acquires a position: the platform queues a task that
\* will invoke successCallback.
PlatformSample ==
  /\ UNCHANGED pageVars
  /\ Len(inflight) < MaxInflight
  /\ \E id \in watches, t \in 1..MaxTimestamp :
       inflight' = Append(inflight,
                     [id |-> id, kind |-> "sample", timestamp |-> t, code |-> 0])
  /\ lastOp' = "platform"
  /\ prev' = Snapshot
  /\ UNCHANGED <<currentLocation, isTracking, error, hasLocationPermission,
                 watchId, effectWatchId, permissionQuery, hasGeolocation,
                 watches, nextWatchId>>

\* A registered watch fails: the platform queues a task that will invoke
\* errorCallback.  A denied permission ends the watch (the platform removes
\* the id); after a timeout or an unavailable position the watch goes on.
PlatformError ==
  /\ UNCHANGED pageVars
  /\ Len(inflight) < MaxInflight
  /\ \E id \in watches, c \in ErrorCodes :
       /\ inflight' = Append(inflight,
                        [id |-> id, kind |-> "error", timestamp |-> 0, code |-> c])
       /\ watches' = IF c = PERMISSION_DENIED THEN watches \ {id} ELSE watches
  /\ lastOp' = "platform"
  /\ prev' = Snapshot
  /\ UNCHANGED <<currentLocation, isTracking, error, hasLocationPermission,
                 watchId, effectWatchId, permissionQuery, hasGeolocation,
                 nextWatchId>>

SamplerNext ==
  \/ startTracking
  \/ stopTracking
  \/ Deliver
  \/ FlushEffect
  \/ checkLocationPermission
  \/ PlatformSample
  \/ PlatformError

\* ------------------------------------------------------------ route pages
\* Coordinates are small integers standing for the floats of the source.
DefaultFormData == [startLat |-> 101, startLng |-> 201,
                    endLat |-> 102, endLng |-> 202]

\* locations.json: ids 1..MaxLocations, each with its own lat and lng.
Catalog == {[id |-> i, lat |-> 10 + i, lng |-> 20 + i] : i \in 1..MaxLocations}
NoSelection == [id |-> 0]

NullRoute == [kind |-> "null"]
UndefinedRoute == [kind |-> "undefined"]
RouteFor(req, path) ==
  [kind |-> "route",
   start |-> [lat |-> req.startLat, lng |-> req.startLng],
   end |-> [lat |-> req.endLat, lng |-> req.endLng],
   path_coordinates |-> path]

\* What the backend may put in data.route for a request: nothing, a route
\* between the requested points with or without a path, or a route that
\* ends at another point (node) than the requested one.
RouteValues(req) ==
  LET start == [lat |-> req.startLat, lng |-> req.startLng]
      end == [lat |-> req.endLat, lng |-> req.endLng]
      node == [lat |-> req.endLat + 50, lng |-> req.endLng + 50]
  IN {UndefinedRoute, RouteFor(req, <<start, end>>), RouteFor(req, <<>>),
      [RouteFor(req, <<start, node>>) EXCEPT !.end = node]}

Undefined == "undefined"
ErrorValues == {Undefined, "No path found", "Failed to fetch graph data"}

\* The outcomes of fetch(url): the promise rejects, or a response arrives
\* with a status and a body; the body is not JSON, is the JSON null, or is an
\* object with success, route and error members.
RejectMessages ==
  {"Failed to fetch", "Load failed",
   "The string did not match the expected pattern."}

Responses(req) ==
  {[kind |-> "reject", message |-> m] : m \in RejectMessages}
  \cup {[kind |-> "http", status |-> st, body |-> [json |-> j]] :
          st \in {200, 500}, j \in {"malformed", "null"}}
  \cup {[kind |-> "http", status |-> st,
         body |-> [json |-> "object", success |-> su, route |-> r, error |-> e]] :
          st \in {200, 500}, su \in BOOLEAN, r \in RouteValues(req),
          e \in ErrorValues}

Truthy(r) == r.kind = "route"
Ok(resp) == resp.status >= 200 /\ resp.status <= 299

ConnectMessage ==
  "Failed to connect to the API. Please check if the backend server is running."
FailedMessage == "Failed to calculate route"

\* data.error || 'Failed to calculate route'
ErrorOr(e) == IF e = Undefined \/ e = "" THEN FailedMessage ELSE e

\* handleRouteCalculation after the await: the route and error it sets
\* (route and error are null since the call started).
LegacyOutcome(resp) ==
  IF resp.kind = "reject" \/ resp.body.json # "object"
  THEN [route |-> NullRoute, error |-> ConnectMessage]
  ELSE IF resp.body.success
       THEN [route |-> resp.body.route, error |-> NoError]
       ELSE [route |-> NullRoute, error |-> ErrorOr(resp.body.error)]

NoResponse == [kind |-> "none"]
NoOrigin == [page |-> "none"]

\* The page of part_001 with its RouteForm, as one value.
LegacyState ==
  [page |-> "legacy", route |-> route, loading |-> loading,
   routeError |-> routeError, coordinates |-> coordinates,
   formData |-> formData, selectedStartLocation |-> selectedStartLocation,
   selectedEndLocation |-> selectedEndLocation]

\* The page of app/page.tsx with its RouteForm, as one value.
HomeState ==
  [page |-> "home", routeData |-> routeData, isLoading |-> isLoading,
   submitError |-> submitError, selectedFromLocation |-> selectedFromLocation,
   selectedToLocation |-> selectedToLocation,
   isNavigationMode |-> isNavigationMode, formData |-> formData,
   selectedStartLocation |-> selectedStartLocation,
   selectedEndLocation |-> selectedEndLocation]

LegacyInit ==
  /\ route = NullRoute
  /\ loading = FALSE
  /\ routeError = NoError
  /\ coordinates = DefaultFormData
  /\ request = <<>>
  /\ formData = DefaultFormData
  /\ selectedStartLocation = NoSelection
  /\ selectedEndLocation = NoSelection
  /\ routeOp = "init"
  /\ lastResponse = NoResponse
  /\ origin = NoOrigin
  /\ fixRequests = <<>>

\* {!route && <RouteForm .../>}
FormMounted == ~Truthy(route)

Offered_Unfiltered(excludeLocationId) == Catalog \cup {NoSelection}

\* LocationSelector: locations.filter(id !== excludeLocationId), or
\* onChange(null).
Offered(excludeLocationId) ==
  {l \in Catalog : l.id # excludeLocationId} \cup {NoSelection}

\* RouteForm.handleStartLocationChange(location) of the render whose
\* formData is data, the form's own state
StartLocationChange(data, location) ==
  /\ selectedStartLocation' = location
  /\ formData' = IF location # NoSelection
                 THEN [data EXCEPT !.startLat = location.lat,
                                   !.startLng = location.lng]
                 ELSE formData
  /\ UNCHANGED selectedEndLocation

\* handleStartLocationChange of the current render
handleStartLocationChange(location) == StartLocationChange(formData, location)

\* RouteForm.handleEndLocationChange(location), the form's own state
handleEndLocationChange(location) ==
  /\ selectedEndLocation' = location
  /\ formData' = IF location # NoSelection
                 THEN [formData EXCEPT !.endLat = location.lat,
                                       !.endLng = location.lng]
                 ELSE formData
  /\ UNCHANGED selectedStartLocation

validateForm_StartOnly == selectedStartLocation # NoSelection

\* RouteForm.validateForm
validateForm ==
  selectedStartLocation # NoSelection /\ selectedEndLocation # NoSelection

\* swappedData of RouteForm.swapLocations
swappedData(data) ==
  [startLat |-> data.endLat, startLng |-> data.endLng,
   endLat |-> data.startLat, endLng |-> data.startLng]

swapLocations_NoTemp ==
  /\ formData' = swappedData(formData)
  /\ selectedStartLocation' = selectedEndLocation
  /\ selectedEndLocation' = selectedEndLocation

\* RouteForm.swapLocations, the form's own state
swapLocations ==
  /\ formData' = swappedData(formData)
  /\ selectedStartLocation' = selectedEndLocation
  /\ selectedEndLocation' = selectedStartLocation

RouteForm_handleReset_Toggling ==
  /\ formData' = IF formData = DefaultFormData
                 THEN swappedData(DefaultFormData) ELSE DefaultFormData
  /\ selectedStartLocation' = NoSelection
  /\ selectedEndLocation' = NoSelection

\* RouteForm.handleReset, the form's own state
RouteForm_handleReset ==
  /\ formData' = DefaultFormData
  /\ selectedStartLocation' = NoSelection
  /\ selectedEndLocation' = NoSelection

\* The start selector of the form mounted by the page of part_001:
\* onCoordinateChange is setCoordinates.
LegacySelectStart ==
  /\ UNCHANGED <<samplerVars, homeVars, selectorVars, navVars>>
  /\ FormMounted
  /\ \E location \in Offered(selectedEndLocation.id) :
       /\ handleStartLocationChange(location)
       /\ coordinates' = IF location # NoSelection THEN formData'
                         ELSE coordinates
  /\ routeOp' = "select"
  /\ lastResponse' = NoResponse
  /\ origin' = NoOrigin
  /\ UNCHANGED <<route, loading, routeError, request>>

\* The destination selector of the same form.
LegacySelectEnd ==
  /\ UNCHANGED <<samplerVars, homeVars, selectorVars, navVars>>
  /\ FormMounted
  /\ \E location \in Offered(selectedStartLocation.id) :
       /\ handleEndLocationChange(location)
       /\ coordinates' = IF location # NoSelection THEN formData'
                         ELSE coordinates
  /\ routeOp' = "select"
  /\ lastResponse' = NoResponse
  /\ origin' = NoOrigin
  /\ UNCHANGED <<route, loading, routeError, request>>

\* The swap button of the same form (disabled while loading or while an
\* endpoint is missing); onCoordinateChange is setCoordinates.
LegacySwap ==
  /\ UNCHANGED <<samplerVars, homeVars, selectorVars, navVars>>
  /\ FormMounted
  /\ ~loading
  /\ selectedStartLocation # NoSelection
  /\ selectedEndLocation # NoSelection
  /\ swapLocations
  /\ coordinates' = swappedData(formData)
  /\ routeOp' = IF routeOp = "swap" THEN "swapAgain" ELSE "swap"
  /\ origin' = IF routeOp = "swap" THEN origin ELSE LegacyState
  /\ lastResponse' = NoResponse
  /\ UNCHANGED <<route, loading, routeError, request>>

\* RouteForm.handleSubmit (the button is disabled while loading or while an
\* endpoint is missing) calling handleRouteCalculation up to the await.
handleRouteCalculation ==
  /\ UNCHANGED <<samplerVars, homeVars, selectorVars, navVars>>
  /\ FormMounted
  /\ ~loading
  /\ validateForm
  /\ loading' = TRUE
  /\ routeError' = NoError
  /\ route' = NullRoute
  /\ coordinates' = formData
  /\ request' = Append(request, formData)
  /\ routeOp' = "submit"
  /\ lastResponse' = NoResponse
  /\ origin' = NoOrigin
  /\ UNCHANGED formVars

\* handleRouteCalculation from the await to the finally block.  A truthy
\* route unmounts RouteForm, whose state starts afresh at the next mount.
handleRouteResponse ==
  /\ UNCHANGED <<samplerVars, homeVars, selectorVars, navVars>>
  /\ request # <<>>
  /\ \E resp \in Responses(Head(request)) :
       LET out == LegacyOutcome(resp) IN
         /\ route' = out.route
         /\ routeError' = out.error
         /\ lastResponse' = resp
         /\ IF Truthy(out.route)
            THEN /\ formData' = coordinates
                 /\ selectedStartLocation' = NoSelection
                 /\ selectedEndLocation' = NoSelection
            ELSE UNCHANGED formVars
  /\ loading' = FALSE
  /\ request' = Tail(request)
  /\ routeOp' = "response"
  /\ origin' = NoOrigin
  /\ UNCHANGED coordinates

\* Home.handleReset, the onReset of RouteResult and RouteDirections.
handleReset ==
  /\ UNCHANGED <<samplerVars, homeVars, selectorVars, navVars>>
  /\ Truthy(route)
  /\ route' = NullRoute
  /\ routeError' = NoError
  /\ routeOp' = "reset"
  /\ lastResponse' = NoResponse
  /\ origin' = NoOrigin
  /\ UNCHANGED <<loading, coordinates, request, formVars>>

\* The reset button of the form (disabled while loading):
\* RouteForm.handleReset with onCoordinateChange = setCoordinates and
\* onReset = Home.handleReset.
LegacyFormReset ==
  /\ UNCHANGED <<samplerVars, homeVars, selectorVars, navVars>>
  /\ FormMounted
  /\ ~loading
  /\ RouteForm_handleReset
  /\ coordinates' = DefaultFormData
  /\ route' = NullRoute
  /\ routeError' = NoError
  /\ routeOp' = IF routeOp \in {"formReset", "formResetAgain"}
                THEN "formResetAgain" ELSE "formReset"
  /\ origin' = LegacyState
  /\ lastResponse' = NoResponse
  /\ UNCHANGED <<loading, request>>

LegacyNext ==
  \/ LegacySelectStart
  \/ LegacySelectEnd
  \/ LegacySwap
  \/ handleRouteCalculation
  \/ handleRouteResponse
  \/ handleReset
  \/ LegacyFormReset

\* ------------------------------------------------------------ app/page.tsx
ServerError(status) == "HTTP error! status: " \o ToString(status)
InvalidUrlMessage ==
  "Invalid URL format. Please check your network connection and try again."
InvalidResponseMessage == "Invalid response from server. Please try again."
CannotConnectMessage ==
  "Cannot connect to the server. Please ensure the backend is running."
NullDataMessage == "Cannot read properties of null (reading 'success')"

\* err.message.includes('Failed to fetch'), over the messages of the model
IncludesFailedToFetch(m) ==
  m \in {"Failed to fetch", "Failed to fetch graph data"}

\* The catch block of handleRouteSubmit for a TypeError or Error with
\* message m.
CatchMessage(isTypeError, m) ==
  IF isTypeError /\ m = "The string did not match the expected pattern."
  THEN InvalidUrlMessage
  ELSE IF IncludesFailedToFetch(m) THEN CannotConnectMessage ELSE m

\* handleRouteSubmit after the await: stored says whether setRouteData and
\* the two setSelected...Location calls run, error is what setError gets.
HomeOutcome(resp) ==
  IF resp.kind = "reject"
  THEN [stored |-> FALSE, error |-> CatchMessage(TRUE, resp.message)]
  ELSE IF ~Ok(resp)
  THEN [stored |-> FALSE, error |-> ServerError(resp.status)]
  ELSE IF resp.body.json = "malformed"
  THEN [stored |-> FALSE, error |-> InvalidResponseMessage]
  ELSE IF resp.body.json = "null"
  THEN [stored |-> FALSE, error |-> CatchMessage(TRUE, NullDataMessage)]
  ELSE IF resp.body.success /\ Truthy(resp.body.route)
  THEN [stored |-> TRUE, error |-> NoError]
  ELSE [stored |-> FALSE,
        error |-> CatchMessage(FALSE, ErrorOr(resp.body.error))]

NoPoint == [name |-> "null"]

\* navigationDestination, the destination prop of LiveNavigation
navigationDestination ==
  IF selectedToLocation # NoPoint
  THEN [lat |-> selectedToLocation.coordinates[2],
        lng |-> selectedToLocation.coordinates[1],
        name |-> selectedToLocation.name]
  ELSE [name |-> "null"]

HomeInit ==
  /\ routeData = NullRoute
  /\ isLoading = FALSE
  /\ submitError = NoError
  /\ selectedFromLocation = NoPoint
  /\ selectedToLocation = NoPoint
  /\ isNavigationMode = FALSE
  /\ homeRequest = <<>>
  /\ session = FreshSession

\* The start selector of the form mounted by app/page.tsx (no
\* onCoordinateChange).
HomeSelectStart ==
  /\ UNCHANGED <<samplerVars, legacyVars, homeVars, selectorVars, navVars>>
  /\ \E location \in Offered(selectedEndLocation.id) :
       handleStartLocationChange(location)
  /\ routeOp' = "select"
  /\ lastResponse' = NoResponse
  /\ origin' = NoOrigin

\* The destination selector of the same form.
HomeSelectEnd ==
  /\ UNCHANGED <<samplerVars, legacyVars, homeVars, selectorVars, navVars>>
  /\ \E location \in Offered(selectedStartLocation.id) :
       handleEndLocationChange(location)
  /\ routeOp' = "select"
  /\ lastResponse' = NoResponse
  /\ origin' = NoOrigin

HomeSwap_WhileLoading ==
  /\ UNCHANGED <<samplerVars, legacyVars, homeVars, selectorVars, navVars>>
  /\ selectedStartLocation # NoSelection
  /\ selectedEndLocation # NoSelection
  /\ swapLocations
  /\ routeOp' = IF routeOp = "swap" THEN "swapAgain" ELSE "swap"
  /\ origin' = IF routeOp = "swap" THEN origin ELSE HomeState
  /\ lastResponse' = NoResponse

\* The swap button of the same form (disabled while loading or while an
\* endpoint is missing).
HomeSwap ==
  /\ UNCHANGED <<samplerVars, legacyVars, homeVars, selectorVars, navVars>>
  /\ ~isLoading
  /\ selectedStartLocation # NoSelection
  /\ selectedEndLocation # NoSelection
  /\ swapLocations
  /\ routeOp' = IF routeOp = "swap" THEN "swapAgain" ELSE "swap"
  /\ origin' = IF routeOp = "swap" THEN origin ELSE HomeState
  /\ lastResponse' = NoResponse

handleRouteSubmit_WhileLoading ==
  /\ UNCHANGED <<samplerVars, legacyVars, selectorVars, navVars>>
  /\ validateForm
  /\ isLoading' = TRUE
  /\ submitError' = NoError
  /\ homeRequest' = Append(homeRequest, formData)
  /\ routeOp' = "submit"
  /\ lastResponse' = NoResponse
  /\ origin' = NoOrigin
  /\ UNCHANGED <<routeData, selectedFromLocation, selectedToLocation,
                 isNavigationMode, formVars>>

\* RouteForm.handleSubmit (the button is disabled while loading or while an
\* endpoint is missing) calling handleRouteSubmit up to the await.
handleRouteSubmit ==
  /\ UNCHANGED <<samplerVars, legacyVars, selectorVars, navVars>>
  /\ ~isLoading
  /\ validateForm
  /\ isLoading' = TRUE
  /\ submitError' = NoError
  /\ homeRequest' = Append(homeRequest, formData)
  /\ routeOp' = "submit"
  /\ lastResponse' = NoResponse
  /\ origin' = NoOrigin
  /\ UNCHANGED <<routeData, selectedFromLocation, selectedToLocation,
                 isNavigationMode, formVars>>

Settled_KeepsPrior(s, req, resp) ==
  LET out == HomeOutcome(resp) IN
    [routeData |-> IF out.stored /\ ~Truthy(s.routeData)
                   THEN resp.body.route ELSE s.routeData,
     submitError |-> IF out.stored THEN s.submitError ELSE out.error,
     selectedFromLocation |->
       IF out.stored
       THEN [name |-> "Start Location",
             coordinates |-> <<req.startLng, req.startLat>>]
       ELSE s.selectedFromLocation,
     selectedToLocation |->
       IF out.stored
       THEN [name |-> "Destination",
             coordinates |-> <<req.endLng, req.endLat>>]
       ELSE s.selectedToLocation]

\* What handleRouteSubmit leaves of page state s for response resp to
\* request req: setRouteData, setSelectedFromLocation and
\* setSelectedToLocation, or setError in the catch block.
Settled(s, req, resp) ==
  LET out == HomeOutcome(resp) IN
    [routeData |-> IF out.stored THEN resp.body.route ELSE s.routeData,
     submitError |-> IF out.stored THEN s.submitError ELSE out.error,
     selectedFromLocation |->
       IF out.stored
       THEN [name |-> "Start Location",
             coordinates |-> <<req.startLng, req.startLat>>]
       ELSE s.selectedFromLocation,
     selectedToLocation |->
       IF out.stored
       THEN [name |-> "Destination",
             coordinates |-> <<req.endLng, req.endLat>>]
       ELSE s.selectedToLocation]

handleRouteSubmitResponse_NoFinally ==
  /\ UNCHANGED <<samplerVars, legacyVars, selectorVars>>
  /\ homeRequest # <<>>
  /\ LET req == Head(homeRequest) IN
       \E resp \in Responses(req) :
         LET s == Settled(HomeState, req, resp) IN
           /\ lastResponse' = resp
           /\ submitError' = s.submitError
           /\ routeData' = s.routeData
           /\ selectedFromLocation' = s.selectedFromLocation
           /\ selectedToLocation' = s.selectedToLocation
           /\ isLoading' = ~HomeOutcome(resp).stored
  /\ homeRequest' = Tail(homeRequest)
  /\ routeOp' = "response"
  /\ origin' = HomeState
  /\ UNCHANGED <<isNavigationMode, formVars>>
  /\ LiveNavigationRender

\* handleRouteSubmit from the await to the finally block.
handleRouteSubmitResponse ==
  /\ UNCHANGED <<samplerVars, legacyVars, selectorVars>>
  /\ homeRequest # <<>>
  /\ LET req == Head(homeRequest) IN
       \E resp \in Responses(req) :
         LET s == Settled(HomeState, req, resp) IN
           /\ lastResponse' = resp
           /\ submitError' = s.submitError
           /\ routeData' = s.routeData
           /\ selectedFromLocation' = s.selectedFromLocation
           /\ selectedToLocation' = s.selectedToLocation
  /\ isLoading' = FALSE
  /\ homeRequest' = Tail(homeRequest)
  /\ routeOp' = "response"
  /\ origin' = HomeState
  /\ UNCHANGED <<isNavigationMode, formVars>>
  /\ LiveNavigationRender

\* onReset={() => setRouteData(null)} of RouteResult.
HomeResetRoute ==
  /\ UNCHANGED <<samplerVars, legacyVars, selectorVars>>
  /\ Truthy(routeData)
  /\ routeData' = NullRoute
  /\ routeOp' = "reset"
  /\ lastResponse' = NoResponse
  /\ origin' = NoOrigin
  /\ UNCHANGED <<isLoading, submitError, selectedFromLocation,
                 selectedToLocation, isNavigationMode, homeRequest, formVars>>
  /\ LiveNavigationRender

\* The reset button of the form (disabled while loading):
\* RouteForm.handleReset with onReset={() => setRouteData(null)} and no
\* onCoordinateChange.
HomeFormReset ==
  /\ UNCHANGED <<samplerVars, legacyVars, selectorVars>>
  /\ ~isLoading
  /\ RouteForm_handleReset
  /\ routeData' = NullRoute
  /\ routeOp' = IF routeOp \in {"formReset", "formResetAgain"}
                THEN "formResetAgain" ELSE "formReset"
  /\ origin' = HomeState
  /\ lastResponse' = NoResponse
  /\ UNCHANGED <<isLoading, submitError, selectedFromLocation,
                 selectedToLocation, isNavigationMode, homeRequest>>
  /\ LiveNavigationRender

\* handleStartNavigation, the onStartNavigation of RouteResult.
handleStartNavigation ==
  /\ UNCHANGED <<samplerVars, legacyVars, selectorVars>>
  /\ Truthy(routeData)
  /\ isNavigationMode' = TRUE
  /\ routeOp' = "startNavigation"
  /\ lastResponse' = NoResponse
  /\ origin' = NoOrigin
  /\ UNCHANGED <<routeData, isLoading, submitError, selectedFromLocation,
                 selectedToLocation, homeRequest, formVars>>
  /\ LiveNavigationRender

\* handleStopNavigation, the onNavigationEnd of LiveNavigation.
handleStopNavigation ==
  /\ UNCHANGED <<samplerVars, legacyVars, selectorVars>>
  /\ isNavigationMode /\ Truthy(routeData)
  /\ isNavigationMode' = FALSE
  /\ routeOp' = "stopNavigation"
  /\ lastResponse' = NoResponse
  /\ origin' = NoOrigin
  /\ UNCHANGED <<routeData, isLoading, submitError, selectedFromLocation,
                 selectedToLocation, homeRequest, formVars>>
  /\ LiveNavigationRender

\* The position callbacks of LocationSelector.handleCurrentLocation build
\* currentLoc from position.coords.
CurrentId == 99
Positions == {[lat |-> 31, lng |-> 41]}
CurrentLoc(position) ==
  [id |-> CurrentId, lat |-> position.lat, lng |-> position.lng]

RemoveAt(seq, i) == SubSeq(seq, 1, i - 1) \o SubSeq(seq, i + 1, Len(seq))

\* LocationSelector.handleCurrentLocation of the start selector
\* (allowCurrentLocation): getCurrentPosition is called with a callback that
\* closes over the onChange of this render, which is
\* handleStartLocationChange with this render's formData.
handleCurrentLocation ==
  /\ UNCHANGED <<samplerVars, legacyVars, homeVars, formVars, navVars>>
  /\ hasGeolocation
  /\ Len(fixRequests) < MaxPendingFixes
  /\ fixRequests' = Append(fixRequests, formData)
  /\ routeOp' = "requestFix"
  /\ lastResponse' = NoResponse
  /\ origin' = NoOrigin

\* The success callback of a pending getCurrentPosition call:
\* onChange(currentLoc).
CurrentPositionFix ==
  /\ UNCHANGED <<samplerVars, legacyVars, homeVars, navVars>>
  /\ \E i \in 1..Len(fixRequests), position \in Positions :
       /\ StartLocationChange(fixRequests[i], CurrentLoc(position))
       /\ fixRequests' = RemoveAt(fixRequests, i)
  /\ routeOp' = "fix"
  /\ lastResponse' = NoResponse
  /\ origin' = NoOrigin

\* The error callback of a pending getCurrentPosition call: alert(...).
CurrentPositionError ==
  /\ UNCHANGED <<samplerVars, legacyVars, homeVars, formVars, navVars>>
  /\ \E i \in 1..Len(fixRequests) : fixRequests' = RemoveAt(fixRequests, i)
  /\ routeOp' = "fixError"
  /\ lastResponse' = NoResponse
  /\ origin' = NoOrigin

\* The user at the form of app/page.tsx, with the "current location" option
\* of its start selector.
FormNext ==
  \/ HomeSelectStart
  \/ HomeSelectEnd
  \/ HomeSwap
  \/ HomeFormReset
  \/ handleRouteSubmit
  \/ handleCurrentLocation
  \/ CurrentPositionFix
  \/ CurrentPositionError

HomeNext ==
  \/ HomeSelectStart
  \/ HomeSelectEnd
  \/ HomeSwap
  \/ handleRouteSubmit
  \/ handleRouteSubmitResponse
  \/ HomeResetRoute
  \/ HomeFormReset
  \/ handleStartNavigation
  \/ handleStopNavigation

Init == SamplerInit /\ LegacyInit /\ HomeInit
Next == SamplerNext
Spec == Init /\ [][Next]_vars

\* A page on its own, in a browser with geolocation whose permission has not
\* been granted.
InitPage == Init /\ hasGeolocation /\ ~hasLocationPermission

\* The page of src/unnamed/part_001.
SpecLegacy == InitPage /\ [][LegacyNext]_vars

\* The page of app/page.tsx.
SpecHome == InitPage /\ [][HomeNext]_vars

\* The form of app/page.tsx and its selectors, up to the first answer of
\* the backend.
SpecForm == InitPage /\ [][FormNext]_vars

\* The page of app/page.tsx showing a route: the state SpecHome reaches by
\* selecting locations 1 and 2, submitting, and a 200 {success: true}
\* response with the route between them.
ReadyStart == CHOOSE l \in Catalog : l.id = 1
ReadyEnd == CHOOSE l \in Catalog : l.id = 2
ReadyRequest == [startLat |-> ReadyStart.lat, startLng |-> ReadyStart.lng,
                 endLat |-> ReadyEnd.lat, endLng |-> ReadyEnd.lng]
ReadyResponse ==
  [kind |-> "http", status |-> 200,
   body |-> [json |-> "object", success |-> TRUE,
             route |-> RouteFor(ReadyRequest,
                                <<[lat |-> ReadyStart.lat, lng |-> ReadyStart.lng],
                                  [lat |-> ReadyEnd.lat, lng |-> ReadyEnd.lng]>>),
             error |-> Undefined]]
ReadyPending ==
  [page |-> "home", routeData |-> NullRoute, isLoading |-> TRUE,
   submitError |-> NoError, selectedFromLocation |-> NoPoint,
   selectedToLocation |-> NoPoint, isNavigationMode |-> FALSE,
   formData |-> ReadyRequest, selectedStartLocation |-> ReadyStart,
   selectedEndLocation |-> ReadyEnd]

RouteReady ==
  /\ route = NullRoute
  /\ loading = FALSE
  /\ routeError = NoError
  /\ coordinates = DefaultFormData
  /\ request = <<>>
  /\ formData = ReadyRequest
  /\ selectedStartLocation = ReadyStart
  /\ selectedEndLocation = ReadyEnd
  /\ LET s == Settled(ReadyPending, ReadyRequest, ReadyResponse) IN
       /\ routeData = s.routeData
       /\ submitError = s.submitError
       /\ selectedFromLocation = s.selectedFromLocation
       /\ selectedToLocation = s.selectedToLocation
  /\ isLoading = FALSE
  /\ isNavigationMode = FALSE
  /\ homeRequest = <<>>
  /\ routeOp = "response"
  /\ lastResponse = ReadyResponse
  /\ origin = ReadyPending
  /\ fixRequests = <<>>
  /\ session = FreshSession

InitNavigation ==
  SamplerInit /\ hasGeolocation /\ ~hasLocationPermission /\ RouteReady

\* Navigation over the route shown: the user starts and stops navigation,
\* LiveNavigation is mounted in between, and the sampler runs.
NavigationNext ==
  \/ handleStartNavigation
  \/ handleStopNavigation
  \/ startTracking
  \/ stopTracking
  \/ Deliver
  \/ FlushEffect
  \/ checkLocationPermission
  \/ PlatformSample
  \/ PlatformError

SpecNavigation == InitNavigation /\ [][NavigationNext]_vars

\* The page of app/page.tsx with a backend that answers: the promise
\* awaited by handleRouteSubmit settles and its continuation runs.
SpecHomeFair == SpecHome /\ WF_vars(handleRouteSubmitResponse)

TypeOK ==
  /\ isTracking \in BOOLEAN
  /\ watchId \in 0..MaxWatches
  /\ watches \subseteq 1..MaxWatches
  /\ Len(inflight) <= MaxInflight

\* ------------------------------------------------------------------ claims
Messages == {ErrorMessage(c) : c \in ErrorCodes}

\* C1: in every reachable state at most one platform position watch is
\* registered.
C1_AtMostOneWatch == Cardinality(watches) <= 1

\* C2: startTracking called while already tracking has no additional effect:
\* the tracking flag, the held subscription and the set of registered
\* watches are what they were.
C2_StartIdempotent ==
  (lastOp = "startTracking" /\ prev.isTracking) =>
    /\ isTracking = prev.isTracking
    /\ watchId = prev.watchId
    /\ watches = prev.watches

\* C3: stopTracking cancels the held subscription if there is one and always
\* leaves the sampler idle (isTracking false, no held and no registered
\* watch), whatever error was recorded before; called on an idle sampler it
\* changes nothing (idempotence).
C3_StopAlwaysIdle ==
  lastOp = "stopTracking" =>
    /\ ~isTracking
    /\ watchId = NullId
    /\ watches = {}
    /\ error = prev.error
    /\ (~prev.isTracking /\ prev.watchId = NullId) =>
         /\ watches = prev.watches
         /\ currentLocation = prev.currentLocation
         /\ hasLocationPermission = prev.hasLocationPermission

C3_Witness ==
  /\ lastOp = "stopTracking"
  /\ prev.error \in Messages
  /\ prev.watchId # NullId
  /\ prev.watchId \in prev.watches

\* C4: a sample delivered once tracking is stopped (it was in flight when
\* stopTracking cancelled the watch) changes neither currentLocation nor
\* error nor the permission flag.
C4_NoSampleAfterStop ==
  (lastOp = "sample" /\ ~prev.isTracking /\ prev.watchId = NullId) =>
    /\ currentLocation = prev.currentLocation
    /\ error = prev.error
    /\ hasLocationPermission = prev.hasLocationPermission

\* C5: a delivered sensor error leaves the sampler idle with the message of
\* its code recorded, and isTracking turns from false to true only in a
\* startTracking call.
C5_ErrorGoesIdleNoAutoRestart ==
  /\ lastOp = "error" =>
       /\ ~isTracking
       /\ error = ErrorMessage(Head(prev.inflight).code)
       /\ error # NoError
  /\ (isTracking /\ ~prev.isTracking) => lastOp = "startTracking"

C5_Witness ==
  /\ lastOp = "error"
  /\ prev.isTracking
  /\ Head(prev.inflight).code = TIMEOUT

\* C6: once a sensor error has been delivered no platform watch remains
\* registered, and no later sample or error changes the sampler state until
\* startTracking is called again.
C6_ErrorTearsDownWatch ==
  /\ lastOp = "error" => watches = {}
  /\ (lastOp \in {"sample", "error"} /\ prev.error \in Messages) =>
       /\ currentLocation = prev.currentLocation
       /\ error = prev.error
       /\ isTracking = prev.isTracking
       /\ hasLocationPermission = prev.hasLocationPermission

\* C7: startTracking is accepted whatever error and permission flag it finds:
\* it clears the error and leaves the sampler tracking with a fresh
\* registered subscription.
C7_StartAcceptedAfterError ==
  (lastOp = "startTracking" /\ hasGeolocation) =>
    /\ isTracking
    /\ error = NoError
    /\ watchId # NullId
    /\ watchId # prev.watchId
    /\ watchId \in watches

C7_Witness ==
  /\ lastOp = "startTracking"
  /\ prev.error = ErrorMessage(PERMISSION_DENIED)
  /\ ~prev.hasLocationPermission
  /\ ~prev.isTracking

\* C8: a delivered sample whose timestamp is not greater than that of the
\* retained currentLocation is ignored, so the retained timestamp never
\* decreases.
C8_TimestampMonotone ==
  lastOp = "sample" =>
    /\ currentLocation.timestamp >= prev.currentLocation.timestamp
    /\ Head(prev.inflight).timestamp <= prev.currentLocation.timestamp =>
         currentLocation = prev.currentLocation

\* C9: a response with a non-2xx status is a ServerError whatever its body:
\* no RouteResult is stored and the recorded error carries the status.
C9_NonOkIsServerError ==
  (routeOp = "response" /\ lastResponse.kind = "http" /\ ~Ok(lastResponse)) =>
    /\ route = NullRoute
    /\ routeError = ServerError(lastResponse.status)

\* C10: a completed route request leaves either a RouteResult with a path
\* of at least 2 coordinates and no error, or no route and a recorded error.
C10_RouteXorError ==
  routeOp = "response" =>
    \/ /\ Truthy(route)
       /\ Len(route.path_coordinates) >= 2
       /\ routeError = NoError
    \/ /\ route = NullRoute
       /\ routeError # NoError

\* C11: after a failed route request (rejected fetch, non-2xx status,
\* malformed body or success=false envelope) the error is recorded and no
\* route is present, whatever route was present before the submission.
C11_FailureDiscardsRoute ==
  (routeOp = "response" /\ ~HomeOutcome(lastResponse).stored) =>
    /\ submitError # NoError
    /\ routeData = NullRoute

\* The errors app/page.tsx records for a rejected fetch, a non-2xx status
\* and a malformed body.
TransportAndHttpErrors ==
  {HomeOutcome(r).error :
     r \in {x \in Responses(DefaultFormData) :
              x.kind = "reject" \/ ~Ok(x) \/ x.body.json = "malformed"}}

\* C12: a failure envelope {success: false, error: m} with a 2xx status
\* records exactly m, and m is none of the errors recorded for a rejected
\* fetch, a non-2xx status or a malformed body.
C12_FailureEnvelopeMessage ==
  (/\ routeOp = "response"
   /\ lastResponse.kind = "http"
   /\ Ok(lastResponse)
   /\ lastResponse.body.json = "object"
   /\ ~lastResponse.body.success
   /\ lastResponse.body.error # Undefined) =>
    /\ submitError = lastResponse.body.error
    /\ submitError \notin TransportAndHttpErrors

\* C13: at most one route request is in flight in every reachable state,
\* and a request is in flight only while the page is loading, whatever the
\* user does while it is pending.
C13_AtMostOneRequest ==
  /\ Len(homeRequest) <= 1
  /\ homeRequest # <<>> => isLoading

C13_Witness ==
  /\ Len(homeRequest) = 1
  /\ routeOp = "select"
  /\ validateForm

\* C14: whatever the outcome of a route request, when its handler has run
\* the page is no longer loading, either the route was stored or an error is
\* recorded (nothing escapes the handler), and submission is possible again
\* as soon as both endpoints are selected; and a loading page eventually
\* stops loading.
C14_RequestResolves ==
  /\ [](routeOp = "response" =>
         /\ ~isLoading
         /\ homeRequest = <<>>
         /\ HomeOutcome(lastResponse).stored \/ submitError # NoError
         /\ validateForm => ENABLED handleRouteSubmit)
  /\ (isLoading ~> ~isLoading)

C14_Witness ==
  /\ routeOp = "response"
  /\ lastResponse.kind = "http"
  /\ lastResponse.body.json = "malformed"
  /\ origin.isLoading
  /\ validateForm

\* C15: a route request is issued only in a state where both the start
\* selection and the end selection are non-null.
C15_SubmitNeedsBothEndpoints ==
  routeOp = "submit" =>
    /\ selectedStartLocation # NoSelection
    /\ selectedEndLocation # NoSelection

C15_Witness ==
  /\ routeOp = "submit"
  /\ homeRequest = <<formData>>
  /\ selectedStartLocation \in Catalog
  /\ selectedEndLocation \in Catalog

\* C16: a 2xx response {success: true, route: R} leaves exactly R as the
\* stored route, whatever route was stored before, and no error.
C16_SuccessReplacesRoute ==
  (/\ routeOp = "response"
   /\ lastResponse.kind = "http"
   /\ Ok(lastResponse)
   /\ lastResponse.body.json = "object"
   /\ lastResponse.body.success
   /\ Truthy(lastResponse.body.route)) =>
    /\ routeData = lastResponse.body.route
    /\ submitError = NoError

C16_Witness ==
  /\ routeOp = "response"
  /\ Truthy(origin.routeData)
  /\ Truthy(routeData)
  /\ routeData # origin.routeData
  /\ routeData = lastResponse.body.route

\* C17: after Reset both endpoint selections are null, no route is present,
\* no error is recorded, navigation mode is off and no tracking subscription
\* is active, whatever the state Reset was called in.
C17_ResetYieldsIdle ==
  routeOp \in {"formReset", "formResetAgain"} =>
    /\ selectedStartLocation = NoSelection
    /\ selectedEndLocation = NoSelection
    /\ routeData = NullRoute
    /\ submitError = NoError
    /\ ~isNavigationMode
    /\ ~isTracking
    /\ watchId = NullId

\* C18: Reset applied to the state a Reset has just left changes nothing in
\* the page and its form.
C18_ResetIdempotent ==
  routeOp = "formResetAgain" => LegacyState = origin

C18_Witness ==
  /\ routeOp = "formResetAgain"
  /\ origin.page = "legacy"
  /\ origin.formData = DefaultFormData
  /\ origin.selectedStartLocation = NoSelection

\* C19: in every reachable state navigation mode is on only if a route is
\* present.
C19_NavigationNeedsRoute == isNavigationMode => Truthy(routeData)

\* C20: two swaps in a row return the form (selections and coordinates) and
\* the page to the state before the first.
C20_SwapInvolution ==
  routeOp = "swapAgain" => HomeState = origin

C20_Witness ==
  /\ routeOp = "swapAgain"
  /\ origin.page = "home"
  /\ selectedStartLocation # selectedEndLocation
  /\ formData # swappedData(formData)

\* C21: a swap happens only with both endpoints selected and no route
\* request in flight, and the state it leaves has the two selections and the
\* two coordinate pairs exchanged together.
C21_SwapGuardedAndAtomic ==
  routeOp \in {"swap", "swapAgain"} =>
    /\ selectedStartLocation # NoSelection
    /\ selectedEndLocation # NoSelection
    /\ ~isLoading
    /\ homeRequest = <<>>
    /\ routeOp = "swap" =>
         /\ selectedStartLocation = origin.selectedEndLocation
         /\ selectedEndLocation = origin.selectedStartLocation
         /\ formData = swappedData(origin.formData)

C21_Witness ==
  /\ routeOp = "swap"
  /\ origin.page = "home"
  /\ origin.selectedStartLocation \in Catalog
  /\ origin.selectedEndLocation \in Catalog
  /\ formData # origin.formData

\* C22: in every reachable state the start selection and the end selection
\* are not the same catalog location.
C22_EndpointsDiffer ==
  (selectedStartLocation \in Catalog /\ selectedEndLocation \in Catalog) =>
    selectedStartLocation.id # selectedEndLocation.id

C22_Witness ==
  /\ routeOp = "select"
  /\ selectedStartLocation \in Catalog
  /\ selectedEndLocation \in Catalog
  /\ selectedStartLocation \notin Offered(selectedStartLocation.id)

\* C23: in every reachable state the end selection is not the 'current'
\* (GPS) location.
C23_DestinationNeverCurrent == selectedEndLocation.id # CurrentId

\* C27: whenever a route request is issued, the coordinates it sends are
\* those of the selected start and end locations.
C27_RequestMatchesSelections ==
  routeOp = "submit" =>
    LET req == homeRequest[Len(homeRequest)] IN
      /\ req.startLat = selectedStartLocation.lat
      /\ req.startLng = selectedStartLocation.lng
      /\ req.endLat = selectedEndLocation.lat
      /\ req.endLng = selectedEndLocation.lng

\* C28: no selection is made while a route request is in flight, and a
\* stored route was requested for the endpoints selected when its response
\* is handled.
C28_SelectionsFrozenInFlight ==
  /\ routeOp = "select" => homeRequest = <<>>
  /\ (routeOp = "response" /\ HomeOutcome(lastResponse).stored) =>
       /\ selectedStartLocation # NoSelection
       /\ selectedEndLocation # NoSelection
       /\ selectedFromLocation.coordinates =
            <<selectedStartLocation.lng, selectedStartLocation.lat>>
       /\ selectedToLocation.coordinates =
            <<selectedEndLocation.lng, selectedEndLocation.lat>>

\* C29: without geolocation capability startTracking records the
\* Unsupported error and changes nothing else: the sampler stays idle, no
\* subscription is created and currentLocation is what it was.
C29_UnsupportedLeavesIdle ==
  (lastOp = "startTracking" /\ ~hasGeolocation) =>
    /\ error = UnsupportedMessage
    /\ ~isTracking
    /\ isTracking = prev.isTracking
    /\ watchId = NullId
    /\ watches = {}
    /\ watches = prev.watches
    /\ currentLocation = prev.currentLocation
    /\ hasLocationPermission = prev.hasLocationPermission

C29_Witness ==
  /\ lastOp = "startTracking"
  /\ ~hasGeolocation
  /\ ~prev.isTracking
  /\ prev.watches = {}

\* C25: whenever navigation mode is on (LiveNavigation is rendered), the
\* destination handed to it is the end coordinate of the stored route.
C25_DestinationIsRouteEnd ==
  (isNavigationMode /\ Truthy(routeData)) =>
    /\ navigationDestination.lat = routeData.end.lat
    /\ navigationDestination.lng = routeData.end.lng

\* C24: a sensor error delivered in navigation mode is recorded, and
\* navigation mode goes from on to off only in handleStopNavigation.
C24_ErrorKeepsNavigation ==
  /\ [](lastOp = "error" => error \in Messages)
  /\ [][(isNavigationMode /\ ~isNavigationMode') =>
          (routeOp' = "stopNavigation" /\ lastOp' = lastOp)]_vars

C24_Witness ==
  /\ lastOp = "error"
  /\ prev.isTracking
  /\ error \in Messages
  /\ isNavigationMode
  /\ Truthy(routeData)

\* C26: a navigation session produces at most one completion event, it is
\* complete exactly when that event was produced, a sample within the
\* radius leaves it complete, and sample deliveries to a complete session
\* stop neither tracking nor the held watch.
C26_ArrivalOnce ==
  /\ session.completions <= 1
  /\ session.arrived <=> session.completions = 1
  /\ session.near > 0 => session.arrived
  /\ (lastOp = "sample" /\ session.arrived) =>
       /\ isTracking = prev.isTracking
       /\ watchId = prev.watchId
       /\ prev.watchId \in prev.watches => watchId \in watches

C26_Witness ==
  /\ lastOp = "sample"
  /\ session.near = 2
  /\ session.completions = 1
  /\ isTracking
  /\ watchId \in watches

====
